---- MODULE Spec2Model ----
(***************************************************************************)
(* stalk: one watcher goroutine per resolved resource kind consumes the    *)
(* kind's watch stream, keeps the last seen object per identity in a cache *)
(* private to the goroutine and prints one block per CREATE / UPDATE /     *)
(* DELETE event to the process's standard output (src/main.go).            *)
(***************************************************************************)
EXTENDS Naturals, Sequences, FiniteSets, TLC

\* ------------------------------------------------------------------ bounds
\* events every stream together may deliver in one run
MaxEvents == 3
\* kind strings on the command line
MaxArgs == 2
\* events a stream holds that its watcher has not received yet
QueueCap == 2
\* objects the cache and its caller hold together when the cache is driven
\* on its own
MaxHeap == 4
\* PrintDiff calls made on one Differ
MaxCalls == 2

\* ------------------------------------------------------------- input sets
\* resource kind strings the user may type (args[0] split at ",")
ResourceKinds == {"po", "pods", "secrets", "bogus"}
\* object names the store delivers events for
Names == {"x"}

\* ------------------------------------------------------- program constants
\* options.namespace default
DefaultNamespace == "default"

\* ------------------------------------------------------------- documents
\* the nil *unstructured.Unstructured
nil == [ns |-> "", name |-> "", rev |-> 0, managed |-> FALSE]

\* mapper.KindFor: the group/version/kind a kind string resolves to
KindFor(resourceKind) ==
    CASE resourceKind \in {"po", "pods"} -> "/v1, Kind=Pod"
      [] resourceKind = "secrets" -> "/v1, Kind=Secret"
      [] OTHER -> "unknown"

GVKs == {KindFor(r) : r \in ResourceKinds} \ {"unknown"}

\* ------------------------------------------------------------------ state
VARIABLES
    kinds,      \* main: the map of resolved kinds (its key set)
    hideManagedFields, \* opt.hideManagedFields
    mainPc,     \* main: "loop", "wait", "exited" (returned), "fatal" (log.Fatalf)
    todo,       \* main: kinds the watch loop has not reached yet
    wg,         \* sync.WaitGroup counter
    stream,     \* per kind: events sent on w.ResultChan() and not yet received
    closed,     \* per kind: w.ResultChan() is closed
    wpc,        \* per kind: watcher goroutine: "none", "recv", "body", "done"
    cur,        \* per kind: the event whose body is still to be printed
    cache,      \* per cache instance: resourceCache.resources
    out,        \* standard output: the writes made so far, in order
    delivered,  \* per kind: every event the source has sent, in order
    consumed,   \* per kind: every event the watcher loop has received, in order
    resourceKinds, \* main: the kind strings the resolve loop has not reached yet
    typed,      \* the kind strings as typed on the command line
    launched,   \* per kind: the watcher goroutines main has started
    heap,       \* the cache on its own: the Unstructured objects, by address
    resources,  \* the cache on its own: resourceCache.resources, key -> address
    held,       \* the cache on its own: the addresses the caller holds
    got,        \* the cache on its own: the held addresses that Get returned
    lastOp,     \* the cache on its own: the last call and the address it was about
    scope,      \* the cache on its own: "Namespaced" or "Cluster" kind
    opt,        \* package diff: the Differ's Options
    cached,     \* package diff: the object its caller has cached for the identity
    sink,       \* package diff: the blocks color.Print has written
    ret,        \* package diff: the last PrintDiff call and what it returned
    calls       \* package diff: the number of PrintDiff calls so far

\* the variables of the command line
argVars == <<resourceKinds, typed>>

\* the variables of the cache driven on its own
copyVars == <<heap, resources, held, got, lastOp, scope>>

\* the variables of package diff
diffVars == <<opt, cached, sink, ret, calls>>

\* the variables the watch loop and the watchers leave alone
restVars == <<argVars, copyVars, diffVars>>

vars == <<kinds, hideManagedFields, mainPc, todo, wg, stream, closed, wpc, cur,
          cache, out, delivered, consumed, launched, restVars>>

\* ------------------------------------------------------------ resourceCache
\* newResourceCache: an empty map
newResourceCache == <<>>

\* resourceCache.objectKey
\* a key that leaves the namespace out
objectKeyNameOnly(obj) == obj.name

objectKey(obj) == obj.ns \o "/" \o obj.name

\* (*Unstructured).DeepCopy: a document is a value here, the copy equals it
DeepCopy(obj) == obj

\* resourceCache.Get
Get(rc, obj) ==
    IF objectKey(obj) \in DOMAIN rc THEN DeepCopy(rc[objectKey(obj)]) ELSE nil

\* a Set that keeps the document already stored for the key
SetKeepsStored(rc, obj) ==
    [key \in (DOMAIN rc) \cup {objectKey(obj)} |->
        IF key \in DOMAIN rc THEN rc[key] ELSE DeepCopy(obj)]

\* resourceCache.Set
Set(rc, obj) ==
    [key \in (DOMAIN rc) \cup {objectKey(obj)} |->
        IF key = objectKey(obj) THEN DeepCopy(obj) ELSE rc[key]]

\* a Delete that leaves the entry in the map
DeleteKeepsEntry(rc, obj) == rc

\* resourceCache.Delete
Delete(rc, obj) ==
    [key \in (DOMAIN rc) \ {objectKey(obj)} |-> rc[key]]

\* ----------------------------------------------------------------- events
\* getDynamicInterface: a namespaced kind is watched in opt.namespace, a
\* cluster-wide kind has no namespace (Pod and Secret are namespaced; no
\* cluster-wide kind is among ResourceKinds)
Namespaced(gvk) == gvk # "/v1, Kind=Node"

WatchNamespace(gvk) == IF Namespaced(gvk) THEN DefaultNamespace ELSE ""

\* the events the store may send next on the stream of kind k: the three
\* object events carry an object of the kind, with the managed fields the
\* API server records on every object; a bookmark carries an object with a
\* resource version only, an error carries a Status (no Unstructured)
SourceEvents(k, rev) ==
    { [type |-> t, unstructured |-> TRUE,
       obj |-> [ns |-> WatchNamespace(k), name |-> n, rev |-> rev, managed |-> TRUE]] :
         t \in {"ADDED", "MODIFIED", "DELETED"}, n \in Names }
    \cup { [type |-> "BOOKMARK", unstructured |-> TRUE,
            obj |-> [ns |-> "", name |-> "", rev |-> rev, managed |-> FALSE]] }
    \cup { [type |-> "ERROR", unstructured |-> FALSE, obj |-> nil] }

\* a SetManagedFields that leaves the managed fields in place
SetManagedFieldsKeeps(obj) == obj

\* (*Unstructured).SetManagedFields(nil)
SetManagedFields(obj) == [obj EXCEPT !.managed = FALSE]

\* watcher: the object the event is handled with
MetaObject(hide, e) == IF hide THEN SetManagedFields(e.obj) ELSE e.obj

\* watcher: the identity shown in a block's header
Key(obj) == IF obj.ns # "" THEN obj.ns \o "/" \o obj.name ELSE obj.name

\* watcher: the label of the header printed for an event type
Action(type) ==
    CASE type = "ADDED" -> "CREATE"
      [] type = "MODIFIED" -> "UPDATE"
      [] type = "DELETED" -> "DELETE"
      [] OTHER -> "none"

\* the header line: one fmt.Printf
Header(k, action, key) ==
    [task |-> k, part |-> "header", action |-> action, key |-> key,
     text |-> "--- " \o action \o " --- " \o key \o " ---------------------------------------------\n",
     prev |-> nil, obj |-> nil, sep |-> ""]

\* the body: one fmt.Printf("%s\n\n", ...) of the object's YAML (CREATE) or
\* of diffObjects(previousObject, metaObject) (UPDATE)
Body(k, action, key, prev, obj) ==
    [task |-> k, part |-> "body", action |-> action, key |-> key,
     text |-> IF action = "CREATE" THEN "yaml" ELSE "diff",
     prev |-> prev, obj |-> obj, sep |-> "\n\n"]

\* a switch with a default clause that handles every other event as ADDED
CaseDefaultAdded(event) ==
    IF event.unstructured /\ event.type \in {"MODIFIED", "DELETED"}
    THEN event.type ELSE "ADDED"

\* watcher: the case of the switch an event reaches: none ("skip") when the
\* payload is no *unstructured.Unstructured (continue) or the type has no case
Case(event) ==
    IF ~event.unstructured THEN "skip"
    ELSE IF event.type \in {"ADDED", "MODIFIED", "DELETED"} THEN event.type
    ELSE "skip"

\* an UPDATE that stores the current object before it reads the previous one
PreviousObjectAfterSet(rc, metaObject) == Get(Set(rc, metaObject), metaObject)

\* watcher, UPDATE: previousObject is read from the cache before cache.Set
PreviousObject(rc, metaObject) == Get(rc, metaObject)

\* a receive that takes the newest queued event
ReceiveNewest(q) == q[Len(q)]

\* range over w.ResultChan(): the event received next, and what stays queued
Receive(q) == Head(q)

Remaining(q) == Tail(q)

NoEvent == [action |-> "none", key |-> "", prev |-> nil, obj |-> nil]

\* one cache instance shared by every watcher
TaskCacheShared(k) == "/v1, Kind=Pod"

\* the cache instance the watcher of kind k works on: its own
TaskCache(k) == k

\* ------------------------------------------------------------------- main
\* main: the kinds resolved before the first unknown kind string
RECURSIVE ResolveKinds(_)
ResolveKinds(args) ==
    IF args = <<>> \/ KindFor(Head(args)) = "unknown" THEN {}
    ELSE {KindFor(Head(args))} \cup ResolveKinds(Tail(args))

AllResolve(args) == \A i \in 1..Len(args) : KindFor(args[i]) # "unknown"

ArgLists == UNION { [1..n -> ResourceKinds] : n \in 1..MaxArgs }

Total(f) == LET RECURSIVE Sum(_)
                Sum(S) == IF S = {} THEN 0
                          ELSE LET k == CHOOSE x \in S : TRUE
                               IN Len(f[k]) + Sum(S \ {k})
            IN Sum(DOMAIN f)

\* the state of everything but main's resolve loop when main starts
InitRest ==
    /\ hideManagedFields \in BOOLEAN
    /\ launched = [k \in GVKs |-> 0]
    /\ wg = 0
    /\ stream = [k \in GVKs |-> <<>>]
    /\ closed = [k \in GVKs |-> FALSE]
    /\ wpc = [k \in GVKs |-> "none"]
    /\ cur = [k \in GVKs |-> NoEvent]
    /\ cache = [c \in GVKs |-> newResourceCache]
    /\ out = <<>>
    /\ delivered = [k \in GVKs |-> <<>>]
    /\ consumed = [k \in GVKs |-> <<>>]

\* no cache is driven on its own
NoCacheCalls ==
    /\ heap = <<>>
    /\ resources = <<>>
    /\ held = {}
    /\ got = {}
    /\ lastOp = [op |-> "none", addr |-> 0]
    /\ scope = "none"

\* no Differ is in use
NoDiffer ==
    /\ opt = [jsonPath |-> <<>>, excludePaths |-> <<>>]
    /\ cached = [isNil |-> TRUE, fields |-> <<>>]
    /\ sink = <<>>
    /\ ret = [kind |-> "none"]
    /\ calls = 0

\* main after its resolve loop (the kind strings are not kept)
Init ==
    /\ \E a \in ArgLists :
         /\ kinds = ResolveKinds(a)
         /\ mainPc = IF AllResolve(a) THEN "loop" ELSE "fatal"
    /\ todo = kinds
    /\ resourceKinds = <<>>
    /\ typed = <<>>
    /\ InitRest
    /\ NoCacheCalls
    /\ NoDiffer

\* main before its resolve loop
InitMain ==
    /\ typed \in ArgLists
    /\ resourceKinds = typed
    /\ kinds = {}
    /\ mainPc = "resolve"
    /\ todo = {}
    /\ InitRest
    /\ NoCacheCalls
    /\ NoDiffer

\* a resolve loop that keeps the last resolved kind only
AddKindReplaces(m, gvk) == {gvk}

\* main: kinds[gvk.String()] = gvk
AddKind(m, gvk) == m \cup {gvk}

\* main, one turn of the resolve loop: an unknown kind string is fatal; after
\* the last string the watch loop starts over the resolved kinds
MainResolve ==
    /\ mainPc = "resolve"
    /\ resourceKinds # <<>>
    /\ IF KindFor(Head(resourceKinds)) = "unknown"
       THEN /\ mainPc' = "fatal"
            /\ UNCHANGED <<resourceKinds, kinds, todo>>
       ELSE /\ kinds' = AddKind(kinds, KindFor(Head(resourceKinds)))
            /\ resourceKinds' = Tail(resourceKinds)
            /\ mainPc' = IF Tail(resourceKinds) = <<>> THEN "loop" ELSE "resolve"
            /\ todo' = IF Tail(resourceKinds) = <<>> THEN kinds' ELSE todo
    /\ UNCHANGED <<copyVars, diffVars, typed, launched, hideManagedFields, wg, stream, closed, wpc,
                   cur, cache, out, delivered, consumed>>

\* the process is running: main has neither returned nor called log.Fatalf
Alive == mainPc \in {"loop", "wait"}

\* main, one turn of the watch loop: the watch opens, wg.Add(1), go watcher
MainStartWatch(k) ==
    /\ mainPc = "loop"
    /\ k \in todo
    /\ todo' = todo \ {k}
    /\ wg' = wg + 1
    /\ wpc' = [wpc EXCEPT ![k] = "recv"]
    /\ cache' = [cache EXCEPT ![TaskCache(k)] = newResourceCache]
    /\ launched' = [launched EXCEPT ![k] = @ + 1]
    /\ UNCHANGED <<restVars, kinds, hideManagedFields, mainPc, stream, closed, cur, out,
                   delivered, consumed>>

\* main, one turn of the watch loop: getDynamicInterface or Watch returns an
\* error, log.Fatalf exits the process
MainWatchFails(k) ==
    /\ mainPc = "loop"
    /\ k \in todo
    /\ mainPc' = "fatal"
    /\ UNCHANGED <<restVars, launched, kinds, hideManagedFields, todo, wg, stream, closed, wpc, cur,
                   cache, out, delivered, consumed>>

\* main: the watch loop ends, main calls wg.Wait()
MainLoopEnd ==
    /\ mainPc = "loop"
    /\ todo = {}
    /\ mainPc' = "wait"
    /\ UNCHANGED <<restVars, launched, kinds, hideManagedFields, todo, wg, stream, closed, wpc, cur,
                   cache, out, delivered, consumed>>

\* main: wg.Wait() returns, main returns
MainWaitReturns ==
    /\ mainPc = "wait"
    /\ wg = 0
    /\ mainPc' = "exited"
    /\ UNCHANGED <<restVars, launched, kinds, hideManagedFields, todo, wg, stream, closed, wpc, cur,
                   cache, out, delivered, consumed>>

\* ----------------------------------------------------------------- source
\* the store sends an event on the stream of kind k
SourceSend(k) ==
    /\ Alive
    /\ wpc[k] # "none"
    /\ ~closed[k]
    /\ Len(stream[k]) < QueueCap
    /\ Total(delivered) < MaxEvents
    /\ \E e \in SourceEvents(k, Len(delivered[k]) + 1) :
         /\ stream' = [stream EXCEPT ![k] = Append(@, e)]
         /\ delivered' = [delivered EXCEPT ![k] = Append(@, e)]
    /\ UNCHANGED <<restVars, launched, kinds, hideManagedFields, mainPc, todo, wg, closed, wpc, cur,
                   cache, out, consumed>>

\* the stream of kind k closes (disconnect, error, end of the watch)
SourceClose(k) ==
    /\ Alive
    /\ wpc[k] # "none"
    /\ ~closed[k]
    /\ closed' = [closed EXCEPT ![k] = TRUE]
    /\ UNCHANGED <<restVars, launched, kinds, hideManagedFields, mainPc, todo, wg, stream, wpc, cur,
                   cache, out, delivered, consumed>>

\* ---------------------------------------------------------------- watcher
\* watcher, up to and including the first write of the event's block: the
\* next event is received; a payload that is no Unstructured and a type with
\* no case are skipped
WatcherRecv(k) ==
    /\ Alive
    /\ wpc[k] = "recv"
    /\ stream[k] # <<>>
    /\ LET event == Receive(stream[k])
           metaObject == MetaObject(hideManagedFields, event)
           key == Key(metaObject)
           rc == cache[TaskCache(k)]
       IN /\ stream' = [stream EXCEPT ![k] = Remaining(@)]
          /\ consumed' = [consumed EXCEPT ![k] = Append(@, event)]
          /\ CASE Case(event) = "ADDED" ->
                    /\ out' = Append(out, Header(k, "CREATE", key))
                    /\ cur' = [cur EXCEPT ![k] =
                                 [action |-> "CREATE", key |-> key,
                                  prev |-> nil, obj |-> metaObject]]
                    /\ wpc' = [wpc EXCEPT ![k] = "body"]
                    /\ UNCHANGED cache
               [] Case(event) = "MODIFIED" ->
                    /\ cache' = [cache EXCEPT ![TaskCache(k)] = Set(rc, metaObject)]
                    /\ out' = Append(out, Header(k, "UPDATE", key))
                    /\ cur' = [cur EXCEPT ![k] =
                                 [action |-> "UPDATE", key |-> key,
                                  prev |-> PreviousObject(rc, metaObject),
                                  obj |-> metaObject]]
                    /\ wpc' = [wpc EXCEPT ![k] = "body"]
               [] Case(event) = "DELETED" ->
                    /\ cache' = [cache EXCEPT ![TaskCache(k)] = Delete(rc, metaObject)]
                    /\ out' = Append(out, Header(k, "DELETE", key))
                    /\ UNCHANGED <<cur, wpc>>
               [] OTHER -> UNCHANGED <<cache, out, cur, wpc>>
    /\ UNCHANGED <<restVars, launched, kinds, hideManagedFields, mainPc, todo, wg, closed, delivered>>

\* watcher, the second write of a CREATE or UPDATE block; a CREATE then stores
\* the object
WatcherBody(k) ==
    /\ Alive
    /\ wpc[k] = "body"
    /\ out' = Append(out, Body(k, cur[k].action, cur[k].key, cur[k].prev, cur[k].obj))
    /\ cache' = IF cur[k].action = "CREATE"
                THEN [cache EXCEPT ![TaskCache(k)] = Set(@, cur[k].obj)]
                ELSE cache
    /\ cur' = [cur EXCEPT ![k] = NoEvent]
    /\ wpc' = [wpc EXCEPT ![k] = "recv"]
    /\ UNCHANGED <<restVars, launched, kinds, hideManagedFields, mainPc, todo, wg, stream, closed,
                   delivered, consumed>>

\* a goroutine that returns without wg.Done()
DoneMissing(counter) == counter

\* wg.Done()
Done(counter) == counter - 1

\* watcher: the range over the closed, drained channel ends, wg.Done()
WatcherReturn(k) ==
    /\ Alive
    /\ wpc[k] = "recv"
    /\ stream[k] = <<>>
    /\ closed[k]
    /\ wpc' = [wpc EXCEPT ![k] = "done"]
    /\ wg' = Done(wg)
    /\ UNCHANGED <<restVars, launched, kinds, hideManagedFields, mainPc, todo, stream, closed, cur,
                   cache, out, delivered, consumed>>

Next ==
    \/ \E k \in GVKs : MainStartWatch(k)
    \/ \E k \in GVKs : MainWatchFails(k)
    \/ MainLoopEnd
    \/ MainWaitReturns
    \/ \E k \in GVKs : SourceSend(k)
    \/ \E k \in GVKs : SourceClose(k)
    \/ \E k \in GVKs : WatcherRecv(k)
    \/ \E k \in GVKs : WatcherBody(k)
    \/ \E k \in GVKs : WatcherReturn(k)

Spec == Init /\ [][Next]_vars

\* the Go scheduler runs every runnable goroutine: a watcher that can receive,
\* print or return does so, and main leaves its loop and its wg.Wait() when
\* it can
Fairness ==
    /\ \A k \in GVKs : WF_vars(WatcherRecv(k))
    /\ \A k \in GVKs : WF_vars(WatcherBody(k))
    /\ \A k \in GVKs : WF_vars(WatcherReturn(k))
    /\ WF_vars(MainLoopEnd)
    /\ WF_vars(MainWaitReturns)

FairSpec == Init /\ [][Next]_vars /\ Fairness

\* main from its resolve loop on, with streams that close without an event
NextMain ==
    \/ MainResolve
    \/ \E k \in GVKs : MainStartWatch(k)
    \/ \E k \in GVKs : MainWatchFails(k)
    \/ MainLoopEnd
    \/ MainWaitReturns
    \/ \E k \in GVKs : SourceClose(k)
    \/ \E k \in GVKs : WatcherReturn(k)

SpecMain == InitMain /\ [][NextMain]_vars

\* ------------------------------------------------- the cache on its own
\* the identities of one kind: of a namespaced kind watched in every
\* namespace, or of a cluster-wide kind
CacheIdentities(sc) ==
    IF sc = "Namespaced" THEN {<<"a", "bc">>, <<"ab", "c">>, <<"a", "c">>}
    ELSE {<<"", "bc">>, <<"", "c">>}

\* the objects a caller can hand to the cache at resource version r
CacheObjects(sc, r) ==
    { [ns |-> id[1], name |-> id[2], rev |-> r, managed |-> TRUE] :
        id \in CacheIdentities(sc) }

\* a DeepCopy that returns its argument
CopyShares(h, a) == a

\* (*Unstructured).DeepCopy of the object at address a: a new object
CopyOf(h, a) == Len(h) + 1

\* the objects after the object at address b was given the value of doc
Put(h, b, doc) == IF b = Len(h) + 1 THEN Append(h, doc) ELSE [h EXCEPT ![b] = doc]

\* the state before the first call: an empty cache, main not running
InitCache ==
    /\ scope \in {"Namespaced", "Cluster"}
    /\ heap = <<>>
    /\ resources = newResourceCache
    /\ held = {}
    /\ got = {}
    /\ lastOp = [op |-> "none", addr |-> 0]
    /\ kinds = {}
    /\ mainPc = "none"
    /\ todo = {}
    /\ resourceKinds = <<>>
    /\ typed = <<>>
    /\ hideManagedFields = TRUE
    /\ InitRest
    /\ NoDiffer

mainVars == <<kinds, hideManagedFields, mainPc, todo, wg, stream, closed, wpc, cur,
              cache, out, delivered, consumed, launched, argVars>>

\* the caller obtains an object (an event arrives)
NewObject ==
    /\ Len(heap) < MaxHeap
    /\ \E o \in CacheObjects(scope, Len(heap) + 1) :
         /\ heap' = Append(heap, o)
         /\ held' = held \cup {Len(heap) + 1}
         /\ lastOp' = [op |-> "new", addr |-> Len(heap) + 1]
    /\ UNCHANGED <<resources, got, scope, mainVars, diffVars>>

\* resourceCache.Set of the held object at address a
CacheSet(a) ==
    /\ a \in held
    /\ CopyOf(heap, a) <= MaxHeap
    /\ LET b == CopyOf(heap, a)
           key == objectKey(heap[a])
       IN /\ heap' = Put(heap, b, heap[a])
          /\ resources' = [x \in (DOMAIN resources) \cup {key} |->
                             IF x = key THEN b ELSE resources[x]]
          /\ lastOp' = [op |-> "set", addr |-> a]
    /\ UNCHANGED <<held, got, scope, mainVars, diffVars>>

\* resourceCache.Get for the held object at address a: nil, or a copy of the
\* stored object, which the caller then holds
CacheGet(a) ==
    /\ a \in held
    /\ LET key == objectKey(heap[a])
       IN IF key \notin DOMAIN resources
          THEN /\ lastOp' = [op |-> "get", addr |-> 0]
               /\ UNCHANGED <<heap, held, got>>
          ELSE /\ CopyOf(heap, resources[key]) <= MaxHeap
               /\ LET c == CopyOf(heap, resources[key])
                  IN /\ heap' = Put(heap, c, heap[resources[key]])
                     /\ held' = held \cup {c}
                     /\ got' = got \cup {c}
                     /\ lastOp' = [op |-> "get", addr |-> c]
    /\ UNCHANGED <<resources, scope, mainVars, diffVars>>

\* resourceCache.Delete for the held object at address a
CacheDelete(a) ==
    /\ a \in held
    /\ resources' = [x \in (DOMAIN resources) \ {objectKey(heap[a])} |-> resources[x]]
    /\ lastOp' = [op |-> "delete", addr |-> a]
    /\ UNCHANGED <<heap, held, got, scope, mainVars, diffVars>>

\* the caller changes an object it holds in place (SetManagedFields(nil))
Mutate(a) ==
    /\ a \in held
    /\ heap[a].managed
    /\ heap' = [heap EXCEPT ![a] = SetManagedFields(@)]
    /\ lastOp' = [op |-> "mutate", addr |-> a]
    /\ UNCHANGED <<resources, held, got, scope, mainVars, diffVars>>

NextCache ==
    \/ NewObject
    \/ \E a \in 1..MaxHeap : CacheSet(a)
    \/ \E a \in 1..MaxHeap : CacheGet(a)
    \/ \E a \in 1..MaxHeap : CacheDelete(a)
    \/ \E a \in 1..MaxHeap : Mutate(a)

SpecCache == InitCache /\ [][NextCache]_vars

\* ---------------------------------------------------------- package diff
\* An object's content is a map from the paths of its leaves to their
\* values; JSON encodes a map's keys in this (sorted) order.
Keys == <<"kind", "metadata", "name", "phase", "replicas", "spec", "status">>

Rank(k) == CHOOSE i \in 1..Len(Keys) : Keys[i] = k

\* a nil *unstructured.Unstructured
nilObject == [isNil |-> TRUE, fields |-> <<>>]

Object(fields) == [isNil |-> FALSE, fields |-> fields]

\* the revisions of one object that events carry
DocPending ==
    (<<"kind">> :> "Pod") @@ (<<"metadata", "name">> :> "x") @@
    (<<"spec", "replicas">> :> "1") @@ (<<"status", "phase">> :> "Pending")

DocRunning ==
    (<<"kind">> :> "Pod") @@ (<<"metadata", "name">> :> "x") @@
    (<<"spec", "replicas">> :> "1") @@ (<<"status", "phase">> :> "Running")

Documents == {DocPending, DocRunning}

\* Options.compiledJSONPath: nil (the empty path), or the path it selects
JSONPaths == {<<>>, <<"status">>, <<"kind">>, <<"phase">>}

\* Options.parsedExcludePaths
ExcludePathLists ==
    {<<>>, << <<"spec", "replicas">> >>, << <<"spec">>, <<"phase">> >>}

\* the library call of preprocess that returns an error, if any
Faults == {"none", "encode", "selector", "exclude", "yaml"}

\* the paths of doc below (or at) prefix
Prefixed(doc, prefix) ==
    { q \in DOMAIN doc : Len(q) >= Len(prefix) /\ SubSeq(q, 1, Len(prefix)) = prefix }

\* the value at path in doc, as a document of its own
SubDocument(doc, path) ==
    [r \in { SubSeq(q, Len(path) + 1, Len(q)) : q \in Prefixed(doc, path) } |-> doc[path \o r]]

\* compiledJSONPath.FindResults: no result, a scalar, or a map
FindResults(doc, path) ==
    IF path \in DOMAIN doc THEN [found |-> TRUE, isMap |-> FALSE, value |-> <<>>]
    ELSE IF Prefixed(doc, path) # {}
         THEN [found |-> TRUE, isMap |-> TRUE, value |-> SubDocument(doc, path)]
         ELSE [found |-> FALSE, isMap |-> FALSE, value |-> <<>>]

\* json.Unmarshal(generic, &genericObj) into the map that is already there:
\* the decoded keys replace their entries, every other entry stays
UnmarshalInto(genericObj, value) ==
    LET top == { r[1] : r \in DOMAIN value }
        kept == { q \in DOMAIN genericObj : q[1] \notin top }
    IN [q \in kept \cup DOMAIN value |->
          IF q \in DOMAIN value THEN value[q] ELSE genericObj[q]]

\* maputil.RemovePath: the document without the subtree at path; a path
\* that addresses nothing removes nothing
RemovePath(doc, path) == [q \in (DOMAIN doc) \ Prefixed(doc, path) |-> doc[q]]

RECURSIVE RemovePaths(_, _)
RemovePaths(doc, paths) ==
    IF paths = <<>> THEN doc ELSE RemovePaths(RemovePath(doc, Head(paths)), Tail(paths))

PathBefore(p, q) ==
    \/ Rank(p[1]) < Rank(q[1])
    \/ /\ p[1] = q[1]
       /\ Len(q) > 1
       /\ (Len(p) = 1 \/ Rank(p[2]) < Rank(q[2]))

RECURSIVE SortPaths(_)
SortPaths(S) ==
    IF S = {} THEN <<>>
    ELSE LET first == CHOOSE p \in S : \A q \in S \ {p} : PathBefore(p, q)
         IN <<first>> \o SortPaths(S \ {first})

\* yaml.JSONToYAML of the encoded document: its lines, keys in JSON's order
JSONToYAML(doc) ==
    IF DOMAIN doc = {} THEN <<"{}">>
    ELSE LET paths == SortPaths(DOMAIN doc)
             LinesOf(i) ==
                 LET q == paths[i]
                 IN IF Len(q) = 1 THEN <<q[1] \o ": " \o doc[q]>>
                    ELSE (IF i > 1 /\ paths[i - 1][1] = q[1] THEN <<>> ELSE <<q[1] \o ":">>)
                         \o <<"  " \o q[2] \o ": " \o doc[q]>>
             Lines[i \in 0..Len(paths)] ==
                 IF i = 0 THEN <<>> ELSE Lines[i - 1] \o LinesOf(i)
         IN Lines[Len(paths)]

Failed(message) == [err |-> message, text |-> <<>>, warned |-> FALSE]

\* a selector step that gives up when FindResults fails
SelectorStepAborts(o, genericObj, fault) ==
    IF o.jsonPath # <<>> /\ fault = "selector"
    THEN [err |-> "Failed to apply JSON path", generic |-> genericObj,
          genericObj |-> genericObj, warned |-> FALSE]
    ELSE [err |-> "", generic |-> genericObj, genericObj |-> genericObj, warned |-> FALSE]

\* preprocess, the compiledJSONPath block: generic and genericObj after it
SelectorStep(o, genericObj, fault) ==
    LET unfiltered == [err |-> "", generic |-> genericObj, genericObj |-> genericObj,
                       warned |-> FALSE]
        results == FindResults(genericObj, o.jsonPath)
    IN IF o.jsonPath = <<>> THEN unfiltered
       ELSE IF fault = "selector" THEN [unfiltered EXCEPT !.warned = TRUE]
       ELSE IF ~results.found THEN unfiltered
       ELSE IF ~results.isMap
            THEN [unfiltered EXCEPT !.err = "failed to re-decode JSON path result from JSON"]
            ELSE [err |-> "", generic |-> results.value,
                  genericObj |-> UnmarshalInto(genericObj, results.value), warned |-> FALSE]

\* preprocess, the parsedExcludePaths block: generic after it
ExcludeStep(o, sel, fault) ==
    IF Len(o.excludePaths) = 0 THEN [err |-> "", generic |-> sel.generic]
    ELSE IF fault = "exclude"
         THEN [err |-> "failed to apply exclude expression", generic |-> sel.generic]
         ELSE [err |-> "", generic |-> RemovePaths(sel.genericObj, o.excludePaths)]

\* Differ.preprocess: the error it returns ("" for nil), its text, and
\* whether it logged a warning
preprocess(o, obj, fault) ==
    IF obj.isNil THEN [err |-> "", text |-> <<>>, warned |-> FALSE]
    ELSE IF fault = "encode" THEN Failed("failed to encode object as JSON")
    ELSE LET sel == SelectorStep(o, obj.fields, fault)
             exc == ExcludeStep(o, sel, fault)
         IN IF sel.err # "" THEN Failed(sel.err)
            ELSE IF exc.err # "" THEN Failed(exc.err)
            ELSE IF fault = "yaml" THEN Failed("failed to encode object as YAML")
            ELSE [err |-> "", text |-> JSONToYAML(exc.generic), warned |-> sel.warned]

\* package diff's objectKey, for objects without a namespace
diffObjectKey(obj) == obj.fields[<<"metadata", "name">>]

diffTitle(obj) ==
    IF obj.isNil THEN "(none)" ELSE obj.fields[<<"kind">>] \o " " \o diffObjectKey(obj)

\* PrintDiff's choice among Options' three themes
ColorTheme(oldObj, newObj) ==
    IF newObj.isNil THEN "DeleteColorTheme"
    ELSE IF oldObj.isNil THEN "CreateColorTheme"
    ELSE "UpdateColorTheme"

\* a PrintDiff that prints although the current object failed to process
WrittenDespiteCurrent(old, new, block) == IF old.err # "" THEN <<>> ELSE <<block>>

\* what PrintDiff hands to color.Print: nothing once either side failed
Written(old, new, block) == IF old.err # "" \/ new.err # "" THEN <<>> ELSE <<block>>

\* Differ.PrintDiff: the error it returns and the blocks it prints
PrintDiff(o, oldObj, newObj, faultOld, faultNew) ==
    LET old == preprocess(o, oldObj, faultOld)
        new == IF old.err # "" THEN Failed("") ELSE preprocess(o, newObj, faultNew)
        block == [titleA |-> diffTitle(oldObj), titleB |-> diffTitle(newObj),
                  theme |-> ColorTheme(oldObj, newObj), diff |-> <<old.text, new.text>>]
    IN [err |-> IF old.err # "" THEN "failed to process previous object"
                ELSE IF new.err # "" THEN "failed to process current object"
                ELSE "",
        written |-> Written(old, new, block),
        old |-> old,
        new |-> new]

\* the Event Router's kinds
EventKinds == {"CREATE", "UPDATE", "DELETE"}

\* the Event Router: the cache entry after an event of this kind
Routed(kind, obj) == IF kind = "DELETE" THEN nilObject ELSE obj

\* at most one library call fails in a PrintDiff call
FaultPairs ==
    { <<f, "none">> : f \in Faults } \cup { <<"none", f>> : f \in Faults }

InitDiffer ==
    /\ opt \in [jsonPath : JSONPaths, excludePaths : ExcludePathLists]
    /\ cached = nilObject
    /\ sink = <<>>
    /\ ret = [kind |-> "none"]
    /\ calls = 0
    /\ kinds = {}
    /\ mainPc = "none"
    /\ todo = {}
    /\ resourceKinds = <<>>
    /\ typed = <<>>
    /\ hideManagedFields = TRUE
    /\ InitRest
    /\ NoCacheCalls

\* the Event Router hands one event to the Differ: previous is the cache
\* lookup result, current the event's document
DifferEvent(kind, doc, faults) ==
    /\ calls < MaxCalls
    /\ LET r == PrintDiff(opt, cached, Object(doc), faults[1], faults[2])
       IN /\ sink' = sink \o r.written
          /\ ret' = [kind |-> kind, old |-> cached, new |-> Object(doc),
                     faultOld |-> faults[1], faultNew |-> faults[2],
                     err |-> r.err, oldString |-> r.old, newString |-> r.new]
    /\ cached' = Routed(kind, Object(doc))
    /\ calls' = calls + 1
    /\ UNCHANGED <<opt, mainVars, copyVars>>

NextDiffer ==
    \E kind \in EventKinds, doc \in Documents, faults \in FaultPairs :
        DifferEvent(kind, doc, faults)

SpecDiffer == InitDiffer /\ [][NextDiffer]_vars

\* ------------------------------------------------------- claims: helpers
\* a CREATE, UPDATE or DELETE event (an Unstructured payload, a type with a case)
IsObjEvent(e) == e.unstructured /\ e.type \in {"ADDED", "MODIFIED", "DELETED"}

\* the identity of an object within its kind
Identity(obj) == <<obj.ns, obj.name>>

Max(S) == CHOOSE m \in S : \A x \in S : x <= m

\* the writes of the watcher of kind k, in order
TaskOut(k) == SelectSeq(out, LAMBDA c : c.task = k)

\* the positions in seq, before position i, of the object events for the
\* identity of obj
Earlier(seq, i, obj) ==
    { j \in 1..(i - 1) : IsObjEvent(seq[j]) /\ Identity(seq[j].obj) = Identity(obj) }

\* the document the events seq[1..i-1] leave for the identity of obj: that of
\* the latest CREATE or UPDATE with no DELETE after it, or nil
LeftBy(seq, i, obj) ==
    IF Earlier(seq, i, obj) = {} THEN nil
    ELSE LET e == seq[Max(Earlier(seq, i, obj))]
         IN IF e.type = "DELETED" THEN nil
            ELSE MetaObject(hideManagedFields, e)

\* the watcher of kind k is between two events (or has returned): every event
\* it has received is fully processed
Settled(k) == wpc[k] \in {"recv", "done"}

\* the objects a kind's events can be about
ObjectsOf(k) ==
    { [ns |-> WatchNamespace(k), name |-> n, rev |-> 1, managed |-> FALSE] : n \in Names }

\* ------------------------------------------------------------------ C1
\* C1: once the watcher of a kind has processed the events it received, its
\* cache holds an entry for an identity exactly when the latest processed
\* CREATE/UPDATE/DELETE event for that identity is a CREATE or an UPDATE, and
\* the entry is the object of that latest event (as the watcher handled it:
\* the event's own object, after SetManagedFields(nil) when hideManagedFields
\* is set), whatever was stored before.
C1_CacheReflectsLatestEvent ==
    \A k \in GVKs : Settled(k) =>
        /\ DOMAIN cache[TaskCache(k)] \subseteq { objectKey(o) : o \in ObjectsOf(k) }
        /\ \A o \in ObjectsOf(k) :
             LET seq == consumed[k]
                 left == LeftBy(seq, Len(seq) + 1, o)
             IN IF left = nil
                THEN objectKey(o) \notin DOMAIN cache[TaskCache(k)]
                ELSE /\ objectKey(o) \in DOMAIN cache[TaskCache(k)]
                     /\ cache[TaskCache(k)][objectKey(o)] = left

\* a watcher has processed a CREATE, then a DELETE, then an UPDATE of one
\* identity and holds the UPDATE's object
C1_Witness ==
    \E k \in GVKs :
        /\ Settled(k)
        /\ Len(consumed[k]) = 3
        /\ consumed[k][1].type = "ADDED"
        /\ consumed[k][2].type = "DELETED"
        /\ consumed[k][3].type = "MODIFIED"
        /\ cache[TaskCache(k)][objectKey(consumed[k][3].obj)].rev = 3

\* ------------------------------------------------------------------ C2
\* C2: the previous side of every UPDATE body is what the cache held for the
\* identity before this event was stored: the object of the latest earlier
\* CREATE/UPDATE with no DELETE in between, or nil; the cache holds the
\* current object afterwards.
C2_UpdatePreviousIsCacheBefore ==
    /\ \A i \in 1..Len(out) :
         (out[i].part = "body" /\ out[i].action = "UPDATE") =>
            LET k == out[i].task
            IN out[i].prev = LeftBy(consumed[k], out[i].obj.rev, out[i].obj)
    /\ \A k \in GVKs :
         (wpc[k] = "body" /\ cur[k].action = "UPDATE") =>
            /\ cur[k].prev = LeftBy(consumed[k], Len(consumed[k]), cur[k].obj)
            /\ cache[TaskCache(k)][objectKey(cur[k].obj)] = cur[k].obj

\* an UPDATE body was printed whose previous side is an earlier object of the
\* identity
C2_Witness ==
    \E i \in 1..Len(out) :
        /\ out[i].part = "body"
        /\ out[i].action = "UPDATE"
        /\ out[i].prev # nil
        /\ out[i].prev.rev < out[i].obj.rev

\* ------------------------------------------------------------------ C3
\* C3: every block reaches standard output as one unit: the write that
\* follows the header of a CREATE or UPDATE block is the body of that block,
\* never a write of another watcher.
C3_BlocksAreAtomic ==
    \A i \in 1..Len(out) :
        (i < Len(out) /\ out[i].part = "header" /\ out[i].action \in {"CREATE", "UPDATE"}) =>
            /\ out[i + 1].task = out[i].task
            /\ out[i + 1].part = "body"

\* ------------------------------------------------------------------ C4
\* C4: a step of the watcher of one kind (it receives an event, prints, or
\* returns) leaves the cache of every other kind's watcher as it was.
C4_CachesArePrivate ==
    [][\A k \in GVKs :
          (consumed'[k] # consumed[k] \/ wpc'[k] # wpc[k]) =>
             \A j \in GVKs \ {k} : cache'[TaskCache(j)] = cache[TaskCache(j)]]_vars

\* two watchers stored an object of the same namespace and name; one of them
\* then processed its DELETE, the other still holds its entry
C4_Witness ==
    \E k \in GVKs : \E j \in GVKs \ {k} :
        /\ Len(consumed[k]) = 2
        /\ consumed[k][1].type = "ADDED"
        /\ consumed[k][2].type = "DELETED"
        /\ Len(consumed[j]) = 1
        /\ consumed[j][1].type = "ADDED"
        /\ Identity(consumed[j][1].obj) = Identity(consumed[k][2].obj)
        /\ Settled(j)
        /\ objectKey(consumed[k][2].obj) \notin DOMAIN cache[TaskCache(k)]
        /\ objectKey(consumed[j][1].obj) \in DOMAIN cache[TaskCache(j)]

\* ------------------------------------------------------------------ C5
\* C5: the step that handles a DELETE leaves no entry for the identity, leaves
\* every other entry alone (so it changes nothing when the identity was not
\* cached), writes the DELETE header and nothing else, and is back at the
\* head of the loop; an UPDATE of an identity that is not cached gets nil as
\* its previous side.
C5_DeleteRemovesAndPrintsHeaderOnly ==
    [][\A k \in GVKs :
          (Len(consumed'[k]) = Len(consumed[k]) + 1
             /\ consumed'[k][Len(consumed'[k])].unstructured) =>
             LET e == consumed'[k][Len(consumed'[k])]
                 key == objectKey(e.obj)
                 rc == cache[TaskCache(k)]
                 rcAfter == cache'[TaskCache(k)]
             IN /\ e.type = "DELETED" =>
                     /\ key \notin DOMAIN rcAfter
                     /\ DOMAIN rcAfter = (DOMAIN rc) \ {key}
                     /\ \A other \in DOMAIN rcAfter : rcAfter[other] = rc[other]
                     /\ Len(out') = Len(out) + 1
                     /\ out'[Len(out')].part = "header"
                     /\ out'[Len(out')].action = "DELETE"
                     /\ out'[Len(out')].task = k
                     /\ wpc'[k] = "recv"
                /\ (e.type = "MODIFIED" /\ key \notin DOMAIN rc) =>
                     /\ cur'[k].prev = nil
                     /\ wpc'[k] = "body"]_vars

\* a watcher processed a DELETE of an identity it had not cached, then a
\* DELETE again, then an UPDATE whose body it printed with no previous side
C5_Witness ==
    \E k \in GVKs :
        /\ Settled(k)
        /\ Len(consumed[k]) = 3
        /\ consumed[k][1].type = "DELETED"
        /\ consumed[k][2].type = "DELETED"
        /\ consumed[k][3].type = "MODIFIED"
        /\ \E i \in 1..Len(out) :
             /\ out[i].task = k
             /\ out[i].part = "body"
             /\ out[i].action = "UPDATE"
             /\ out[i].prev = nil

\* ------------------------------------------------------------------ C6
\* C6: a CREATE of an identity that is already cached is rendered with the
\* cached object as its previous side.
C6_DuplicateCreateUsesCached ==
    /\ \A i \in 1..Len(out) :
         (out[i].part = "body" /\ out[i].action = "CREATE") =>
            out[i].prev = LeftBy(consumed[out[i].task], out[i].obj.rev, out[i].obj)
    /\ \A k \in GVKs :
         (Settled(k) /\ consumed[k] # <<>>
            /\ IsObjEvent(consumed[k][Len(consumed[k])])
            /\ consumed[k][Len(consumed[k])].type = "ADDED") =>
               cache[TaskCache(k)][objectKey(consumed[k][Len(consumed[k])].obj)]
                  = MetaObject(hideManagedFields, consumed[k][Len(consumed[k])])

\* ------------------------------------------------------------------ C7
\* C7: what a watcher has written, once it is between two events, is a
\* sequence of blocks of one shape: a header, then a body of the same event,
\* then the blank-line separator, for CREATE, UPDATE and DELETE alike.
C7_EveryBlockHasBodyAndSeparator ==
    \A k \in GVKs : Settled(k) =>
        LET t == TaskOut(k)
        IN /\ Len(t) % 2 = 0
           /\ \A i \in 1..Len(t) :
                IF i % 2 = 1
                THEN t[i].part = "header"
                ELSE /\ t[i].part = "body"
                     /\ t[i].action = t[i - 1].action
                     /\ t[i].key = t[i - 1].key
                     /\ t[i].sep = "\n\n"

\* ------------------------------------------------------------------ C8
\* C8: main waits only after it has started the watcher of every kind, and
\* the process ends only after every started watcher has seen its stream
\* closed and has returned.
C8_ExitOnlyAfterAllTasksReturned ==
    /\ mainPc \in {"wait", "exited"} => \A k \in kinds : wpc[k] # "none"
    /\ ~Alive => \A k \in GVKs :
                    wpc[k] # "none" =>
                       /\ wpc[k] = "done"
                       /\ closed[k]
                       /\ stream[k] = <<>>

\* ------------------------------------------------------------------ C9
\* C9: when the stream of one kind closes or fails (its watch closes, or
\* opening it returns an error), every other kind's watcher that is running
\* stays running at the point it was.
C9_StreamFailureEndsOnlyItsTask ==
    [][\A k \in GVKs :
          (\/ closed'[k] /\ ~closed[k]
           \/ k \in todo /\ mainPc = "loop" /\ mainPc' = "fatal") =>
             \A j \in GVKs \ {k} :
                (Alive /\ wpc[j] \in {"recv", "body"}) =>
                   (Alive' /\ wpc'[j] = wpc[j])]_vars

\* ------------------------------------------------------------------ C10
\* C10: a watcher receives the events of its stream in the order they were
\* sent, one at a time, and the headers it has written are, one for one and
\* in order, those of the CREATE/UPDATE/DELETE events it has received.
C10_HeadersFollowStreamOrder ==
    \A k \in GVKs :
        LET hs == SelectSeq(TaskOut(k), LAMBDA c : c.part = "header")
            evs == SelectSeq(consumed[k], IsObjEvent)
        IN /\ delivered[k] = consumed[k] \o stream[k]
           /\ Len(hs) = Len(evs)
           /\ \A i \in 1..Len(hs) :
                /\ hs[i].action = Action(evs[i].type)
                /\ hs[i].key = Key(evs[i].obj)
           /\ wpc[k] = "body" =>
                /\ consumed[k] # <<>>
                /\ cur[k].obj = MetaObject(hideManagedFields, consumed[k][Len(consumed[k])])

\* a watcher has received a CREATE, an UPDATE and a DELETE and has written
\* the three headers
C10_Witness ==
    \E k \in GVKs :
        /\ Settled(k)
        /\ Len(consumed[k]) = 3
        /\ {consumed[k][i].type : i \in 1..3} = {"ADDED", "MODIFIED", "DELETED"}
        /\ Len(SelectSeq(TaskOut(k), LAMBDA c : c.part = "header")) = 3

\* ------------------------------------------------------------------ C17
\* C17: the step that receives an event whose payload is no Unstructured, or
\* whose type is none of ADDED, MODIFIED, DELETED, changes no cache, writes
\* nothing, and leaves the watcher at the head of its loop with the process
\* running, ready for the next event.
C17_OtherEventsAreSkipped ==
    [][\A k \in GVKs :
          (Len(consumed'[k]) = Len(consumed[k]) + 1
             /\ ~IsObjEvent(consumed'[k][Len(consumed'[k])])) =>
             /\ cache' = cache
             /\ out' = out
             /\ cur' = cur
             /\ wpc[k] = "recv"
             /\ wpc'[k] = "recv"
             /\ Alive']_vars

\* a watcher received an error notification and a bookmark, wrote nothing for
\* them, and then handled a CREATE
C17_Witness ==
    \E k \in GVKs :
        /\ Settled(k)
        /\ Len(consumed[k]) = 3
        /\ consumed[k][1].type = "ERROR"
        /\ consumed[k][2].type = "BOOKMARK"
        /\ consumed[k][3].type = "ADDED"
        /\ Len(TaskOut(k)) = 2
        /\ objectKey(consumed[k][3].obj) \in DOMAIN cache[TaskCache(k)]

\* ------------------------------------------------------------------ C18
\* C18: with hideManagedFields set, no cached object, no object in hand and
\* no previous or current side of a written body has managed fields.
C18_NoManagedFieldsWhenHidden ==
    hideManagedFields =>
        /\ \A k \in GVKs : \A key \in DOMAIN cache[TaskCache(k)] :
              ~cache[TaskCache(k)][key].managed
        /\ \A k \in GVKs : ~cur[k].prev.managed /\ ~cur[k].obj.managed
        /\ \A i \in 1..Len(out) : ~out[i].prev.managed /\ ~out[i].obj.managed

\* with hideManagedFields set, objects that arrived with managed fields were
\* cached and printed as both sides of an UPDATE
C18_Witness ==
    /\ hideManagedFields
    /\ \E k \in GVKs :
         /\ Len(consumed[k]) >= 2
         /\ \A i \in 1..Len(consumed[k]) : consumed[k][i].obj.managed
         /\ DOMAIN cache[TaskCache(k)] # {}
         /\ \E i \in 1..Len(out) :
              /\ out[i].task = k
              /\ out[i].action = "UPDATE"
              /\ out[i].part = "body"
              /\ out[i].prev # nil

KindsTyped == { KindFor(typed[i]) : i \in 1..Len(typed) }

SumOver(f, S) ==
    LET RECURSIVE Acc(_)
        Acc(T) == IF T = {} THEN 0
                  ELSE LET x == CHOOSE y \in T : TRUE IN f[x] + Acc(T \ {x})
    IN Acc(S)

C20_OneTaskPerResolvedKind ==
    /\ mainPc \in {"loop", "wait", "exited"} => kinds = KindsTyped
    /\ \A k \in GVKs :
         /\ launched[k] <= 1
         /\ launched[k] = 1 <=> wpc[k] # "none"
         /\ launched[k] = 1 => k \in KindsTyped
    /\ mainPc \in {"wait", "exited"} => \A k \in KindsTyped : launched[k] = 1
    /\ wg = SumOver(launched, GVKs) - Cardinality({k \in GVKs : wpc[k] = "done"})
    /\ mainPc = "exited" =>
         Cardinality({k \in GVKs : wpc[k] = "done"}) = SumOver(launched, GVKs)

\* "po" and "pods" were typed, one watcher was started and main waited for it
C20_Witness ==
    /\ typed = <<"po", "pods">>
    /\ mainPc = "exited"
    /\ SumOver(launched, GVKs) = 1
    /\ wpc["/v1, Kind=Pod"] = "done"

\* what Get returns for a key: the stored object's value, or nil
Stored(key) == IF key \in DOMAIN resources THEN heap[resources[key]] ELSE nil

\* what Get returns for an identity
StoredFor(id) == Stored(objectKey([ns |-> id[1], name |-> id[2], rev |-> 0, managed |-> FALSE]))

\* the step was the call op of the cache driven on its own
CallWas(op) == lastOp'.op = op

\* C11: the cache stores and returns isolated copies: a caller changing an
\* object it passed to Set, or one that Get returned, changes no value a
\* later Get returns; Get returns the stored value in an object the cache
\* does not hold, and changes neither the entries nor their values
C11_CopiesAreIsolated ==
    [][ /\ CallWas("mutate") =>
             \A id \in CacheIdentities(scope) : StoredFor(id)' = StoredFor(id)
        /\ CallWas("get") =>
             /\ resources' = resources
             /\ \A id \in CacheIdentities(scope) : StoredFor(id)' = StoredFor(id)
             /\ lastOp'.addr # 0 =>
                  /\ heap'[lastOp'.addr] = StoredFor(Identity(heap'[lastOp'.addr]))
                  /\ \A key \in DOMAIN resources : resources[key] # lastOp'.addr
      ]_vars

\* the caller stripped both the object it had passed to Set and the copy Get
\* returned, and the stored value still carries its managed fields
C11_Witness ==
    /\ lastOp.op = "mutate"
    /\ \E id \in CacheIdentities(scope) :
         /\ StoredFor(id) # nil
         /\ StoredFor(id).managed
         /\ \E a \in held \ got, c \in got :
              /\ Identity(heap[a]) = id /\ Identity(heap[c]) = id
              /\ heap[a].rev = StoredFor(id).rev /\ heap[c].rev = StoredFor(id).rev
              /\ ~heap[a].managed /\ ~heap[c].managed

\* the objects the caller and the cache hold
HeapObjects == { heap[a] : a \in 1..Len(heap) }

\* C16: two objects have the same cache key exactly when they have the same
\* (namespace, name), whatever else differs between them, for a namespaced
\* and for a cluster-wide kind; every entry is stored under the key of its
\* object; and a Set or Delete for one identity leaves what Get returns for
\* every other identity unchanged
C16_KeysAreUniqueAndStable ==
    /\ [](/\ \A o1 \in HeapObjects, o2 \in HeapObjects :
               (objectKey(o1) = objectKey(o2)) <=> (Identity(o1) = Identity(o2))
          /\ \A key \in DOMAIN resources : objectKey(Stored(key)) = key)
    /\ [][ (CallWas("set") \/ CallWas("delete")) =>
             \A id \in CacheIdentities(scope) :
                 id # Identity(heap[lastOp'.addr]) => StoredFor(id)' = StoredFor(id)
         ]_vars

\* two identities with the same name in different namespaces are cached,
\* and the last call was a Set for one of them
C16_Witness ==
    /\ lastOp.op = "set"
    /\ \E id1 \in CacheIdentities(scope), id2 \in CacheIdentities(scope) :
         /\ id1 # id2
         /\ id1[2] = id2[2]
         /\ Identity(heap[lastOp.addr]) = id1
         /\ StoredFor(id1) # nil
         /\ StoredFor(id2) # nil

\* the Options without a sub-document selector
NoSelector(o) == [o EXCEPT !.jsonPath = <<>>]

\* C12: PrintDiff returns an error exactly when transforming the previous or
\* the current object failed; a call that returns an error writes nothing to
\* the sink, a call that returns nil writes one block, and no call changes
\* the Differ's options
C12_FailedTransformWritesNothing ==
    [][ ret'.kind # "none" =>
          /\ opt' = opt
          /\ (ret'.err # "") <=> (ret'.oldString.err # "" \/ ret'.newString.err # "")
          /\ ret'.err # "" => sink' = sink
          /\ (ret'.err = "" /\ calls' # calls) => Len(sink') = Len(sink) + 1
      ]_vars

\* the first call returned an error and wrote nothing, the second call on
\* the same Differ returned nil and wrote its block
C12_Witness ==
    /\ calls = 2
    /\ Len(sink) = 1
    /\ ret.err = ""

\* C13 (fails): with a selector that matches a map of the current object,
\* the text is the text of that map transformed alone, with the same
\* exclude paths and no selector
C13_SelectorOutputIsSubtreeAlone ==
    (/\ ret.kind # "none"
     /\ opt.jsonPath # <<>>
     /\ ret.faultNew = "none"
     /\ ret.oldString.err = ""
     /\ FindResults(ret.new.fields, opt.jsonPath).isMap)
    => /\ ret.newString.err = ""
       /\ ret.newString.text =
            preprocess(NoSelector(opt),
                       Object(SubDocument(ret.new.fields, opt.jsonPath)), "none").text

\* C14: when FindResults fails for an object, preprocess returns no error
\* and the text it would return with no selector configured, the exclude
\* paths applied
C14_SelectorFailureFallsBack ==
    /\ (/\ ret.kind # "none"
        /\ opt.jsonPath # <<>>
        /\ ret.faultOld = "selector"
        /\ ~ret.old.isNil)
       => /\ ret.oldString.err = ""
          /\ ret.oldString.text = preprocess(NoSelector(opt), ret.old, "none").text
    /\ (/\ ret.kind # "none"
        /\ opt.jsonPath # <<>>
        /\ ret.faultNew = "selector"
        /\ ret.oldString.err = "")
       => /\ ret.newString.err = ""
          /\ ret.newString.text = preprocess(NoSelector(opt), ret.new, "none").text
          /\ ret.err = ""

\* the selector for status failed on the current object, exclude paths are
\* configured, and the block was printed
C14_Witness ==
    /\ ret.kind # "none"
    /\ opt.jsonPath = <<"status">>
    /\ opt.excludePaths # <<>>
    /\ ret.faultNew = "selector"
    /\ ret.err = ""
    /\ Len(sink) >= 1
    /\ "  phase: Pending" \in { ret.newString.text[i] : i \in 1..Len(ret.newString.text) }

\* the theme the spec assigns to an event kind
ThemeFor(kind) ==
    CASE kind = "CREATE" -> "CreateColorTheme"
      [] kind = "UPDATE" -> "UpdateColorTheme"
      [] kind = "DELETE" -> "DeleteColorTheme"

\* C15 (fails): every block is printed in the theme of its event's kind
C15_ThemeFollowsEventKind ==
    (ret.kind # "none" /\ ret.err = "") => sink[Len(sink)].theme = ThemeFor(ret.kind)

====
